---- MODULE Spec2Model ----
(***************************************************************************)
(* Model of the character-password generator of package spg:              *)
(*   src/char_gen.go        CharRecipe with one CharInclusion per class    *)
(*   src/unnamed/part_000   CharRecipe with Allow/Require/Exclude bitmasks *)
(*                                                                         *)
(* A Go string is a sequence of characters, each character a one-letter   *)
(* TLA+ string; a []string is a sequence of such sequences.               *)
(***************************************************************************)
EXTENDS Integers, Sequences, FiniteSets, TLC

VARIABLES variant, r, pc, chars, toks, i, draws, builds, p, err, bits

vars == <<variant, r, pc, chars, toks, i, draws, builds, p, err, bits>>

(* ------------------------------------------------------------------ *)
(* Bounds of the model                                                 *)
(* ------------------------------------------------------------------ *)

\* Length ranges over -1 .. MaxLen.
MaxLen == 2

\* A caller's recipe states at most MaxStated class policies: classes that
\* are not CIUnstated (char_gen.go), bits set in Allow, Require and Exclude
\* together (part_000).
MaxStated == 2

\* Where buildCharacterList is taken alone, a one-state-per-class recipe
\* states at most MaxResolved class policies.
MaxResolved == 3

(* ------------------------------------------------------------------ *)
(* Character types                                                     *)
(* ------------------------------------------------------------------ *)

CTUpper ==
    <<"A","B","C","D","E","F","G","H","I","J","K","L","M",
      "N","O","P","Q","R","S","T","U","V","W","X","Y","Z">>

CTLower ==
    <<"a","b","c","d","e","f","g","h","i","j","k","l","m",
      "n","o","p","q","r","s","t","u","v","w","x","y","z">>

CTDigits == <<"0","1","2","3","4","5","6","7","8","9">>

CTAmbiguous == <<"0","O","1","I","l","5","S">>

CTSymbols ==
    <<"!","#","%",")","*","+",",","-",".",":","=",">","?","@","]","^","_","}","~">>

CTWhiteSpace == <<" ","\t">>

(* ------------------------------------------------------------------ *)
(* Helpers on strings                                                  *)
(* ------------------------------------------------------------------ *)

Range(s) == { s[k] : k \in 1..Len(s) }

\* strings.Split(s, ""): s exploded into its characters, each a string of
\* length 1; the empty string gives the empty slice.
Split(s) == [k \in 1..Len(s) |-> <<s[k]>>]

\* s with each distinct character kept once, at its first occurrence
RECURSIVE firstOccurrences(_)
firstOccurrences(s) ==
    IF Len(s) <= 1 THEN s
    ELSE LET half == Len(s) \div 2
             left == firstOccurrences(SubSeq(s, 1, half))
             right == firstOccurrences(SubSeq(s, half + 1, Len(s)))
             seen == Range(left)
         IN  left \o SelectSeq(right, LAMBDA c : c \notin seen)

\* subtractString(src, remove): the characters of src that do not occur in
\* remove, each distinct character once, in the order of first occurrence.
subtractString(src, remove) ==
    LET gone == Range(remove)
    IN  firstOccurrences(SelectSeq(src, LAMBDA c : c \notin gone))

(* ------------------------------------------------------------------ *)
(* char_gen.go: one CharInclusion per character class                  *)
(* ------------------------------------------------------------------ *)

CIUnstated == 0
CIAllow == 1
CIRequire == 2
CIExclude == 3

\* map[string]string from field names of CharRecipe to alphabets
fieldNamesAlphabets ==
    [Uppers |-> CTUpper, Lowers |-> CTLower, Digits |-> CTDigits,
     Symbols |-> CTSymbols, Ambiguous |-> CTAmbiguous]

\* One iteration of the loop of buildCharacterList over field fname: acc is
\* <<ab, exclude>>. CIRequire falls through to CIAllow; CIUnstated and a
\* value that is none of the four (the default case, which only prints)
\* leave both strings alone. Before visitField, three ways to get it wrong:
\* CIExclude forgotten, only CIRequire appended, and the excluded class
\* subtracted at once from what ab holds so far.
visitField_ExcludeDropped(rc, fname, acc) ==
    LET s == fieldNamesAlphabets[fname]
        f == rc[fname]
    IN  IF f = CIRequire \/ f = CIAllow THEN <<acc[1] \o s, acc[2]>>
        ELSE acc

visitField_AllowSkipped(rc, fname, acc) ==
    LET s == fieldNamesAlphabets[fname]
        f == rc[fname]
    IN  CASE f = CIRequire -> <<acc[1] \o s, acc[2]>>
          [] f = CIExclude -> <<acc[1], acc[2] \o s>>
          [] OTHER -> acc

visitField_ExcludeAtOnce(rc, fname, acc) ==
    LET s == fieldNamesAlphabets[fname]
        f == rc[fname]
    IN  CASE f = CIRequire \/ f = CIAllow -> <<acc[1] \o s, acc[2]>>
          [] f = CIExclude -> <<subtractString(acc[1], s), acc[2]>>
          [] OTHER -> acc

visitField(rc, fname, acc) ==
    LET s == fieldNamesAlphabets[fname]
        f == rc[fname]
    IN  CASE f = CIRequire \/ f = CIAllow -> <<acc[1] \o s, acc[2]>>
          [] f = CIExclude -> <<acc[1], acc[2] \o s>>
          [] f = CIUnstated -> acc
          [] OTHER -> acc

\* "for fname, s := range fieldNamesAlphabets": Go leaves the order in which
\* a map is ranged over unspecified, so the loop is every order of the
\* fields not yet visited. The set of <<ab, exclude>> the loop can end with.
\* A field whose visit appends nothing appends nothing wherever it comes in
\* the order, so those fields are taken first and do not branch.
RECURSIVE rangeFieldNamesAlphabets(_, _, _)
rangeFieldNamesAlphabets(rc, todo, acc) ==
    LET idle == { fname \in todo : visitField(rc, fname, acc) = acc }
    IN  IF todo = {} THEN {acc}
        ELSE IF idle # {} THEN rangeFieldNamesAlphabets(rc, todo \ idle, acc)
        ELSE UNION { rangeFieldNamesAlphabets(rc, todo \ {fname},
                                              visitField(rc, fname, acc))
                     : fname \in todo }

\* The alphabets buildCharacterList can return for recipe rc, one per
\* outcome of the map iteration.
buildCharacterList_NoSubtract(rc) ==
    { Split(acc[1]) :
        acc \in rangeFieldNamesAlphabets(rc, DOMAIN fieldNamesAlphabets,
                                         <<rc.IncludeExtra, rc.ExcludeExtra>>) }

buildCharacterList(rc) ==
    { Split(subtractString(acc[1], acc[2])) :
        acc \in rangeFieldNamesAlphabets(rc, DOMAIN fieldNamesAlphabets,
                                         <<rc.IncludeExtra, rc.ExcludeExtra>>) }

\* NewCharRecipe(length) of char_gen.go
NewCharRecipe(length) ==
    [Length |-> length,
     Uppers |-> CIAllow, Lowers |-> CIAllow, Digits |-> CIAllow,
     Symbols |-> CIAllow, Ambiguous |-> CIExclude,
     ExcludeExtra |-> <<>>, IncludeExtra |-> <<>>]

(* ------------------------------------------------------------------ *)
(* part_000: Allow, Require and Exclude bitmasks of CTFlag              *)
(* ------------------------------------------------------------------ *)

Uppers == 1
Lowers == 2
Digits == 4
Symbols == 8
Ambiguous == 16
WhiteSpace == 32

RECURSIVE BitAnd(_, _)
BitAnd(a, b) ==
    IF a = 0 \/ b = 0 THEN 0
    ELSE (a % 2) * (b % 2) + 2 * BitAnd(a \div 2, b \div 2)

RECURSIVE BitOr(_, _)
BitOr(a, b) ==
    IF a = 0 THEN b
    ELSE IF b = 0 THEN a
    ELSE (IF a % 2 = 1 \/ b % 2 = 1 THEN 1 ELSE 0)
         + 2 * BitOr(a \div 2, b \div 2)

Letters == BitOr(Uppers, Lowers)

\* map[CTFlag]string
charTypeByFlag ==
    (Uppers :> CTUpper) @@ (Lowers :> CTLower) @@ (Digits :> CTDigits) @@
    (Symbols :> CTSymbols) @@ (Ambiguous :> CTAmbiguous) @@
    (WhiteSpace :> CTWhiteSpace)

\* One iteration of the loop of buildCharacterList over flag f: three
\* independent tests, so a class both allowed and required is appended twice.
visitFlag_RequireSkipped(rc, f, acc) ==
    LET ct == charTypeByFlag[f]
        ab1 == IF BitAnd(rc.Allow, f) = f THEN acc[1] \o ct ELSE acc[1]
        ex == IF BitAnd(rc.Exclude, f) = f THEN acc[2] \o ct ELSE acc[2]
    IN  <<ab1, ex>>

visitFlag(rc, f, acc) ==
    LET ct == charTypeByFlag[f]
        ab1 == IF BitAnd(rc.Allow, f) = f THEN acc[1] \o ct ELSE acc[1]
        ab2 == IF BitAnd(rc.Require, f) = f THEN ab1 \o ct ELSE ab1
        ex == IF BitAnd(rc.Exclude, f) = f THEN acc[2] \o ct ELSE acc[2]
    IN  <<ab2, ex>>

\* "for f, ct := range charTypeByFlag", in every order; the flags whose
\* visit appends nothing are taken first, as above.
RECURSIVE rangeCharTypeByFlag(_, _, _)
rangeCharTypeByFlag(rc, todo, acc) ==
    LET idle == { f \in todo : visitFlag(rc, f, acc) = acc }
    IN  IF todo = {} THEN {acc}
        ELSE IF idle # {} THEN rangeCharTypeByFlag(rc, todo \ idle, acc)
        ELSE UNION { rangeCharTypeByFlag(rc, todo \ {f}, visitFlag(rc, f, acc))
                     : f \in todo }

buildCharacterListCTFlag(rc) ==
    { Split(subtractString(acc[1], acc[2])) :
        acc \in rangeCharTypeByFlag(rc, DOMAIN charTypeByFlag,
                                    <<rc.IncludeExtra, rc.ExcludeExtra>>) }

\* NewCharRecipe(length) of part_000
NewCharRecipeCTFlag(length) ==
    [Length |-> length,
     Allow |-> BitOr(BitOr(Letters, Digits), Symbols),
     Require |-> 0,
     Exclude |-> Ambiguous,
     ExcludeExtra |-> <<>>, IncludeExtra |-> <<>>]

(* ------------------------------------------------------------------ *)
(* Entropy                                                             *)
(* ------------------------------------------------------------------ *)

\* A float is [class, q]: a finite value of q/256 bits, or an infinity or
\* NaN. The fixed-point grid is coarser than float32's 24-bit significand,
\* so the values the model reaches convert to float32 without loss.
Finite(q) == [class |-> "finite", q |-> q]
NegInf == [class |-> "-Inf", q |-> 0]
PosInf == [class |-> "+Inf", q |-> 0]
NaN == [class |-> "NaN", q |-> 0]

RECURSIVE floorLog2(_)
floorLog2(n) == IF n < 2 THEN 0 ELSE 1 + floorLog2(n \div 2)

\* k binary digits of log2(x / 2^13) for x / 2^13 in [1, 2), by repeated
\* squaring.
RECURSIVE log2Fraction(_, _)
log2Fraction(x, k) ==
    IF k = 0 THEN 0
    ELSE LET sq == (x * x) \div (2^13)
         IN  IF sq >= 2^14
             THEN 2^(k - 1) + log2Fraction(sq \div 2, k - 1)
             ELSE log2Fraction(sq, k - 1)

\* math.Log2(n) for an integer n >= 1, in units of 1/256
Log2(n) ==
    LET e == floorLog2(n)
    IN  e * 256 + log2Fraction((n * 2^13) \div (2^e), 8)

\* entropySimple(length, nelem) = length * log2(nelem); log2(0) is -Inf
entropySimple(length, nelem) ==
    IF nelem = 0
    THEN (IF length > 0 THEN NegInf ELSE IF length = 0 THEN NaN ELSE PosInf)
    ELSE Finite(length * Log2(nelem))

\* float32(x): the significand rounded to 24 bits, ties to even
float32(x) ==
    IF x.class # "finite" THEN x
    ELSE LET m == IF x.q < 0 THEN 0 - x.q ELSE x.q
             sgn == IF x.q < 0 THEN 0 - 1 ELSE 1
         IN  IF m < 2^24 THEN x
             ELSE LET unit == 2^(floorLog2(m) - 23)
                      low == (m \div unit) * unit
                      rest == m - low
                      up == \/ 2 * rest > unit
                            \/ 2 * rest = unit /\ (m \div unit) % 2 = 1
                  IN  Finite(sgn * (IF up THEN low + unit ELSE low))

\* The alphabets r.buildCharacterList() can return, by the file rc is of
buildCharacterListOf(v, rc) ==
    IF v = "CharInclusion" THEN buildCharacterList(rc)
    ELSE buildCharacterListCTFlag(rc)

\* The values r.Entropy() can return: one per alphabet buildCharacterList
\* can return.
Entropy_SizeOffByOne(v, rc) ==
    { float32(entropySimple(rc.Length, Len(a) + 1)) :
        a \in buildCharacterListOf(v, rc) }

Entropy(v, rc) ==
    { float32(entropySimple(rc.Length, Len(a))) :
        a \in buildCharacterListOf(v, rc) }

(* ------------------------------------------------------------------ *)
(* Generate                                                            *)
(* ------------------------------------------------------------------ *)

AtomTokenType == "atom"
Token(c, t) == [Value |-> c, Type |-> t]
ZeroToken == [Value |-> <<>>, Type |-> ""]

\* *Password: nil, or a pointer to a Password
NilPassword == [nil |-> TRUE, Tokens |-> <<>>, Entropy |-> Finite(0)]
Password(tokens, entropy) ==
    [nil |-> FALSE, Tokens |-> tokens, Entropy |-> entropy]

\* error: nil, or fmt.Errorf("don't ask for passwords of length %d", n)
NoError == <<>>
LengthError(n) == <<"don't ask for passwords of length %d", n>>

\* Int31n(n), n >= 1: any value of [0, n)
Int31n(n) == 0..(n - 1)

\* The results of Int31n(n) the model draws: the first and the last index.
Drawn(n) == Int31n(n) \cap {0, n - 1}

\* "if r.Length < 1"
lengthRefused_Negative(rc) == rc.Length < 0

lengthRefused(rc) == rc.Length < 1

\* "toks[i] = Token{c, AtomTokenType}"
storeToken_Reversed(ts, k, c) ==
    [ts EXCEPT ![Len(ts) - k] = Token(c, AtomTokenType)]

storeToken(ts, k, c) == [ts EXCEPT ![k + 1] = Token(c, AtomTokenType)]

\* Generate up to the loop: the length check, then the alphabet and the
\* token slice.
GenerateEnter ==
    /\ pc = "idle"
    /\ IF lengthRefused(r)
       THEN /\ pc' = "error"
            /\ p' = NilPassword
            /\ err' = LengthError(r.Length)
            /\ UNCHANGED <<chars, toks, i, builds>>
       ELSE /\ \E cl \in buildCharacterListOf(variant, r) : chars' = cl
            /\ builds' = builds + 1
            /\ toks' = [k \in 1..r.Length |-> ZeroToken]
            /\ i' = 0
            /\ pc' = "loop"
            /\ UNCHANGED <<p, err>>
    /\ UNCHANGED <<variant, r, draws, bits>>

\* One iteration of the loop over a non-empty alphabet
GenerateDraw ==
    /\ pc = "loop"
    /\ i < r.Length
    /\ Len(chars) > 0
    /\ \E n \in Drawn(Len(chars)) :
         /\ draws' = Append(draws, [bound |-> Len(chars), n |-> n])
         /\ toks' = storeToken(toks, i, chars[n + 1])
    /\ i' = i + 1
    /\ UNCHANGED <<variant, r, pc, chars, builds, p, err, bits>>

\* One iteration of the loop over the empty alphabet: Int31n(0) is outside
\* the sampler's contract. If it returns at all, indexing the empty chars
\* panics; otherwise it panics itself or never returns.
GenerateDrawEmpty ==
    /\ pc = "loop"
    /\ i < r.Length
    /\ Len(chars) = 0
    /\ draws' = Append(draws, [bound |-> 0, n |-> 0 - 1])
    /\ \/ pc' = "panic"
       \/ pc' = "hang"
    /\ UNCHANGED <<variant, r, chars, toks, i, builds, p, err, bits>>

\* After the loop: the tokens, the entropy, the return
GenerateReturn ==
    /\ pc = "loop"
    /\ i >= r.Length
    /\ \E e \in Entropy(variant, r) : p' = Password(toks, e)
    /\ builds' = builds + 1
    /\ err' = NoError
    /\ pc' = "done"
    /\ UNCHANGED <<variant, r, chars, toks, i, draws, bits>>

\* r.Entropy() called on its own
EntropyCall ==
    /\ pc = "idle"
    /\ \E e \in Entropy(variant, r) : bits' = e
    /\ builds' = builds + 1
    /\ pc' = "entropy"
    /\ UNCHANGED <<variant, r, chars, toks, i, draws, p, err>>

\* r.buildCharacterList() called on its own
Resolve ==
    /\ pc = "idle"
    /\ \E cl \in buildCharacterListOf(variant, r) : chars' = cl
    /\ builds' = builds + 1
    /\ pc' = "resolved"
    /\ UNCHANGED <<variant, r, toks, i, draws, p, err, bits>>

(* ------------------------------------------------------------------ *)
(* Recipes                                                             *)
(* ------------------------------------------------------------------ *)

Lengths == (0 - 1)..MaxLen

\* "$" is in no character class.
IncludeExtras == { <<>>, <<"0", "$", "0">> }
ExcludeExtras == { <<>>, <<"$", "a">> }

CharInclusions == {CIUnstated, CIAllow, CIRequire, CIExclude}

\* CharInclusion is an int: 4 stands for a value that is none of the four
\* constants.
AnyCharInclusions == CharInclusions \cup {4}

Stated(rc) == { f \in DOMAIN fieldNamesAlphabets : rc[f] # CIUnstated }

CharInclusionRecipes(lengths, cis, maxStated) ==
    { rc \in [Length : lengths,
              Uppers : cis, Lowers : cis, Digits : cis, Symbols : cis,
              Ambiguous : cis,
              ExcludeExtra : ExcludeExtras, IncludeExtra : IncludeExtras] :
        Cardinality(Stated(rc)) <= maxStated }

Masks == {"Allow", "Require", "Exclude"}

\* The sets of at most k (mask, flag) pairs
RECURSIVE FlagChoices(_)
FlagChoices(k) ==
    IF k = 0 THEN {{}}
    ELSE LET less == FlagChoices(k - 1)
         IN  less \cup { st \cup {x} :
                           st \in less, x \in Masks \X DOMAIN charTypeByFlag }

RECURSIVE SumOf(_)
SumOf(st) ==
    IF st = {} THEN 0
    ELSE LET x == CHOOSE y \in st : TRUE IN x + SumOf(st \ {x})

MaskOf(st, m) == SumOf({ x[2] : x \in { y \in st : y[1] = m } })

CTFlagRecipes(lengths, maxStated) ==
    { [Length |-> n,
       Allow |-> MaskOf(st, "Allow"), Require |-> MaskOf(st, "Require"),
       Exclude |-> MaskOf(st, "Exclude"),
       ExcludeExtra |-> ex, IncludeExtra |-> inc] :
        n \in lengths, st \in FlagChoices(maxStated),
        ex \in ExcludeExtras, inc \in IncludeExtras }

Fresh ==
    /\ pc = "idle"
    /\ chars = <<>>
    /\ toks = <<>>
    /\ i = 0
    /\ draws = <<>>
    /\ builds = 0
    /\ p = NilPassword
    /\ err = NoError
    /\ bits = Finite(0)

\* A caller's recipe: NewCharRecipe(length), or a CharRecipe literal
Init ==
    /\ Fresh
    /\ \/ /\ variant = "CharInclusion"
          /\ r \in CharInclusionRecipes(Lengths, CharInclusions, MaxStated)
                     \cup { NewCharRecipe(n) : n \in Lengths }
       \/ /\ variant = "CTFlag"
          /\ r \in CTFlagRecipes(Lengths, MaxStated)
                     \cup { NewCharRecipeCTFlag(n) : n \in Lengths }

Next ==
    \/ GenerateEnter
    \/ GenerateDraw
    \/ GenerateDrawEmpty
    \/ GenerateReturn
    \/ EntropyCall

Spec == Init /\ [][Next]_vars

\* buildCharacterList as a function of the recipe
InitResolve ==
    /\ Fresh
    /\ \/ /\ variant = "CharInclusion"
          /\ r \in CharInclusionRecipes({MaxLen}, AnyCharInclusions, MaxResolved)
                     \cup { NewCharRecipe(MaxLen) }
       \/ /\ variant = "CTFlag"
          /\ r \in CTFlagRecipes({MaxLen}, MaxStated)
                     \cup { NewCharRecipeCTFlag(MaxLen) }

NextResolve == Resolve

SpecResolve == InitResolve /\ [][NextResolve]_vars

\* buildCharacterList as a function of a caller's recipe of char_gen.go
InitCaller ==
    /\ Init
    /\ variant = "CharInclusion"
    /\ r.Length = MaxLen

SpecCaller == InitCaller /\ [][NextResolve]_vars

(* ------------------------------------------------------------------ *)
(* The recipe's policy as sets of characters                           *)
(* ------------------------------------------------------------------ *)

\* The characters of a []string of one-character strings
CharsOf(cl) == { cl[k][1] : k \in 1..Len(cl) }

HasBit(m, f) == (m \div f) % 2 = 1

\* The character classes the recipe allows or requires, as strings
AllowedClasses(v, rc) ==
    IF v = "CharInclusion"
    THEN { fieldNamesAlphabets[f] :
             f \in { g \in DOMAIN fieldNamesAlphabets :
                       rc[g] \in {CIAllow, CIRequire} } }
    ELSE { charTypeByFlag[f] :
             f \in { g \in DOMAIN charTypeByFlag :
                       HasBit(rc.Allow, g) \/ HasBit(rc.Require, g) } }

RequiredClasses(v, rc) ==
    IF v = "CharInclusion"
    THEN { fieldNamesAlphabets[f] :
             f \in { g \in DOMAIN fieldNamesAlphabets : rc[g] = CIRequire } }
    ELSE { charTypeByFlag[f] :
             f \in { g \in DOMAIN charTypeByFlag : HasBit(rc.Require, g) } }

ExcludedClasses(v, rc) ==
    IF v = "CharInclusion"
    THEN { fieldNamesAlphabets[f] :
             f \in { g \in DOMAIN fieldNamesAlphabets : rc[g] = CIExclude } }
    ELSE { charTypeByFlag[f] :
             f \in { g \in DOMAIN charTypeByFlag : HasBit(rc.Exclude, g) } }

IncludedChars(v, rc) ==
    Range(rc.IncludeExtra) \cup UNION { Range(ct) : ct \in AllowedClasses(v, rc) }

ExcludedChars(v, rc) ==
    Range(rc.ExcludeExtra) \cup UNION { Range(ct) : ct \in ExcludedClasses(v, rc) }

AlphabetSet(v, rc) == IncludedChars(v, rc) \ ExcludedChars(v, rc)

\* The bitmask recipe that states what the one-state-per-class recipe rc
\* states
FlagOfField ==
    [Uppers |-> Uppers, Lowers |-> Lowers, Digits |-> Digits,
     Symbols |-> Symbols, Ambiguous |-> Ambiguous]

MaskFor(rc, ci) ==
    SumOf({ FlagOfField[f] : f \in { g \in DOMAIN FlagOfField : rc[g] = ci } })

ToCTFlag(rc) ==
    [Length |-> rc.Length,
     Allow |-> MaskFor(rc, CIAllow), Require |-> MaskFor(rc, CIRequire),
     Exclude |-> MaskFor(rc, CIExclude),
     ExcludeExtra |-> rc.ExcludeExtra, IncludeExtra |-> rc.IncludeExtra]

FourStates(rc) ==
    \A f \in DOMAIN fieldNamesAlphabets :
        rc[f] \in {CIUnstated, CIAllow, CIRequire, CIExclude}

(* ------------------------------------------------------------------ *)
(* Claims                                                              *)
(* ------------------------------------------------------------------ *)

\* C1: every character of the alphabet buildCharacterList returns is a
\* member of an Allowed or Required class or of IncludeExtra, and none is a
\* member of an Excluded class or of ExcludeExtra; a character of
\* IncludeExtra that is in an Excluded class is absent.
C1_AlphabetWithinPolicy ==
    pc = "resolved" =>
        /\ \A k \in 1..Len(chars) : Len(chars[k]) = 1
        /\ CharsOf(chars) \subseteq IncludedChars(variant, r)
        /\ CharsOf(chars) \cap ExcludedChars(variant, r) = {}
        /\ \A c \in Range(r.IncludeExtra) :
               (\E ct \in ExcludedClasses(variant, r) : c \in Range(ct))
                   => c \notin CharsOf(chars)

\* An alphabet resolved from a recipe whose IncludeExtra holds "0" while a
\* class holding "0" is excluded, other characters remaining.
C1_Witness ==
    /\ pc = "resolved"
    /\ "0" \in Range(r.IncludeExtra)
    /\ \E ct \in ExcludedClasses(variant, r) : "0" \in Range(ct)
    /\ AllowedClasses(variant, r) # {}
    /\ "0" \notin CharsOf(chars)
    /\ "$" \in CharsOf(chars)

\* C2: the alphabet buildCharacterList returns holds each distinct
\* character at most once.
C2_NoDuplicates ==
    pc = "resolved" => Cardinality(Range(chars)) = Len(chars)

\* Ambiguous and Digits, which share "0", "1" and "5", are both allowed and
\* IncludeExtra repeats "0": "0" is appended four times.
C2_Witness ==
    /\ pc = "resolved"
    /\ variant = "CharInclusion"
    /\ r.Digits = CIAllow /\ r.Ambiguous = CIAllow /\ r.Lowers = CIRequire
    /\ r.IncludeExtra = <<"0", "$", "0">>
    /\ <<"0">> \in Range(chars)
    /\ Len(chars) > Len(CTLower) + Len(CTDigits)

\* C3: Generate on a recipe with Length >= 1 whose alphabet is empty does
\* not panic, does not call the sampler with bound 0 and returns no
\* Password: it returns an error.
C3_EmptyAlphabetIsAnError ==
    (r.Length >= 1 /\ AlphabetSet(variant, r) = {}) =>
        /\ pc \notin {"panic", "hang", "done"}
        /\ \A k \in 1..Len(draws) : draws[k].bound # 0
        /\ pc \notin {"idle", "loop", "entropy"} =>
               (pc = "error" /\ p.nil /\ err # NoError)

\* C4: Generate on a recipe with Length < 1 returns an error and a nil
\* Password, before it resolves the alphabet or draws a random value.
C4_InvalidLength ==
    (r.Length < 1 /\ pc \notin {"idle", "entropy"}) =>
        /\ pc = "error"
        /\ p = NilPassword
        /\ err = LengthError(r.Length)
        /\ builds = 0
        /\ draws = <<>>
        /\ chars = <<>>

\* Generate has returned for Length 0 on a recipe that allows a class.
C4_Witness ==
    /\ pc = "error"
    /\ r.Length = 0
    /\ AllowedClasses(variant, r) # {}
    /\ err = LengthError(0)

\* C5: a successful Generate returns exactly Length tokens, each an atom
\* holding a character of the recipe's alphabet, token k being the
\* character the k-th draw of the sampler chose.
C5_TokensInDrawOrder ==
    pc = "done" =>
        LET alphabet == AlphabetSet(variant, r)
        IN  /\ r.Length >= 1
            /\ ~p.nil /\ err = NoError
            /\ Len(p.Tokens) = r.Length
            /\ Len(draws) = r.Length
            /\ CharsOf(chars) = alphabet
            /\ \A k \in 1..r.Length :
                /\ p.Tokens[k].Type = AtomTokenType
                /\ Len(p.Tokens[k].Value) = 1
                /\ p.Tokens[k].Value[1] \in alphabet
                /\ draws[k].bound = Len(chars)
                /\ draws[k].n \in 0..(Len(chars) - 1)
                /\ p.Tokens[k].Value = chars[draws[k].n + 1]

\* A password of two tokens from two different draws.
C5_Witness ==
    /\ pc = "done"
    /\ r.Length = 2
    /\ draws[1].n # draws[2].n
    /\ p.Tokens[1] # p.Tokens[2]

\* C6: a password Generate returns holds, for each Required class, at least
\* one character of that class.
C6_RequiredClassPresent ==
    pc = "done" =>
        \A ct \in RequiredClasses(variant, r) :
            \E k \in 1..Len(p.Tokens) : p.Tokens[k].Value[1] \in Range(ct)

\* C7: with a non-empty alphabet of n distinct characters, Entropy returns
\* Length x log2(n), and the entropy of the Password Generate returns is
\* that value for the n the tokens were sampled from; n = 1 gives 0.
C7_EntropyIsLengthTimesLog2 ==
    LET n == Cardinality(AlphabetSet(variant, r))
    IN  /\ pc = "done" =>
            /\ Len(chars) = n
            /\ p.Entropy = Finite(r.Length * Log2(n))
            /\ n = 1 => p.Entropy = Finite(0)
        /\ (pc = "entropy" /\ n >= 1) =>
            /\ bits = Finite(r.Length * Log2(n))
            /\ n = 1 => bits = Finite(0)

\* A password of two tokens over an alphabet of more than one character, a
\* class being Required.
C7_Witness ==
    /\ pc = "done"
    /\ r.Length = 2
    /\ RequiredClasses(variant, r) # {}
    /\ Len(chars) > 1
    /\ p.Entropy = Finite(2 * Log2(Len(chars)))
    /\ p.Entropy.q > 0

\* C8: changing a class's state from Unstated to Allow leaves the alphabet
\* with the same set of characters.
C8_UnstatedIsAllow ==
    (pc = "resolved" /\ variant = "CharInclusion") =>
        \A f \in DOMAIN fieldNamesAlphabets :
            r[f] = CIUnstated =>
                \A a \in buildCharacterList([r EXCEPT ![f] = CIAllow]) :
                    CharsOf(a) = CharsOf(chars)

\* C8, amended: changing a class's state from Unstated to Allow keeps the
\* alphabet's characters and adds those members of the class that no
\* Excluded class and no character of ExcludeExtra removes.
C8_AllowAddsTheClass ==
    (pc = "resolved" /\ variant = "CharInclusion") =>
        \A f \in DOMAIN fieldNamesAlphabets :
            r[f] = CIUnstated =>
                \A a \in buildCharacterList([r EXCEPT ![f] = CIAllow]) :
                    CharsOf(a) =
                        CharsOf(chars) \cup
                            (Range(fieldNamesAlphabets[f])
                                 \ ExcludedChars(variant, r))

\* Digits is Unstated and allowing it adds digits to a non-empty alphabet.
C8_Witness ==
    /\ pc = "resolved"
    /\ variant = "CharInclusion"
    /\ r.Digits = CIUnstated
    /\ r.Ambiguous = CIExclude
    /\ chars # <<>>
    /\ \E a \in buildCharacterList([r EXCEPT !.Digits = CIAllow]) :
           /\ "2" \in CharsOf(a) /\ "2" \notin CharsOf(chars)
           /\ "0" \notin CharsOf(a)

\* C9: a one-state-per-class recipe and the bitmask recipe that sets the
\* class's bit in Allow, Require or Exclude by its state resolve to the same
\* set of characters, and so do the NewCharRecipe of both files: Uppers,
\* Lowers, Digits and Symbols without Ambiguous.
C9_SameAlphabetInBothEncodings ==
    (pc = "resolved" /\ variant = "CharInclusion" /\ FourStates(r)) =>
        /\ \A a \in buildCharacterListCTFlag(ToCTFlag(r)) :
               CharsOf(a) = CharsOf(chars)
        /\ r = NewCharRecipe(r.Length) =>
            /\ \A a \in buildCharacterListCTFlag(NewCharRecipeCTFlag(r.Length)) :
                   CharsOf(a) = CharsOf(chars)
            /\ CharsOf(chars) =
                   (Range(CTUpper) \cup Range(CTLower) \cup Range(CTDigits)
                        \cup Range(CTSymbols)) \ Range(CTAmbiguous)

\* A recipe with an Allowed, a Required and an Excluded class, resolved.
C9_Witness ==
    /\ pc = "resolved"
    /\ variant = "CharInclusion"
    /\ r.Lowers = CIAllow /\ r.Digits = CIRequire /\ r.Ambiguous = CIExclude
    /\ r.Uppers = CIUnstated
    /\ "2" \in CharsOf(chars)
    /\ \E a \in buildCharacterListCTFlag(ToCTFlag(r)) : "2" \in CharsOf(a)

\* C10: the alphabets buildCharacterList can return for one recipe, one per
\* order of the map iteration, have the same characters and the same size,
\* so Entropy's resolution gives the size of the alphabet sampled from.
C10_OrderIndependent ==
    pc = "resolved" =>
        \A a \in buildCharacterListOf(variant, r) :
            CharsOf(a) = CharsOf(chars) /\ Len(a) = Len(chars)

\* A recipe for which the map iteration gives another alphabet, in another
\* order, than the one resolved.
C10_Witness ==
    /\ pc = "resolved"
    /\ \E a \in buildCharacterListOf(variant, r) : a # chars
    /\ ExcludedClasses(variant, r) # {}

====
